---- MODULE Spec2Model ----
(***************************************************************************)
(* A model of the request dispatch and script bridging of the web server   *)
(* in src/src/main.rs: one handler task per accepted connection, which     *)
(* reads one buffer of request bytes, parses it, and serves a static file  *)
(* or runs a script as a child process.                                    *)
(*                                                                         *)
(* Texts (requests, paths, file contents, script output) are TLA+ strings, *)
(* i.e. sequences of characters; one character stands for one byte.        *)
(***************************************************************************)
EXTENDS Integers, Sequences, FiniteSets, TLC

(***************************************************************************)
(* Bounds of the model.                                                    *)
(***************************************************************************)
\* Number of connection slots (handler tasks that can exist at once).
NumConns == 2
\* Length of the read buffer.  The code reads into [0; 1024] (main.rs:46);
\* the model keeps the mechanism (one read, zero padding, truncation) at a
\* length that the requests of the model reach.
BufLen == 48
\* Number of worker threads of the runtime that runs the handler tasks
\* (#[tokio::main], main.rs:10): one per processor of the machine.
NumWorkers == 1

Conns == 1..NumConns

(***************************************************************************)
(* Bytes that have no TLA+ string escape.                                  *)
(***************************************************************************)
\* The zero byte of the read buffer (main.rs:46).
NUL == "#"
\* A byte that is not valid UTF-8 (0xFF), as a client may send it.
BADBYTE == "!"
\* U+FFFD, what from_utf8_lossy puts for an invalid byte: three bytes.
REPLACEMENT == "<?>"

(***************************************************************************)
(* Text primitives of the Rust standard library, as the code uses them.    *)
(***************************************************************************)
At(s, i) == SubSeq(s, i, i)

Min(S) == CHOOSE x \in S : \A y \in S : x <= y

\* str::starts_with
StartsWith(s, p) == Len(s) >= Len(p) /\ SubSeq(s, 1, Len(p)) = p

\* str::find: the 1-based position of the first occurrence, 0 for None.
Find(s, pat) ==
    LET hits == { i \in 1..(Len(s) - Len(pat) + 1) :
                      SubSeq(s, i, i + Len(pat) - 1) = pat }
    IN  IF hits = {} THEN 0 ELSE Min(hits)

\* &s[n..] with n counted in bytes from 0: the text from position n+1 on.
From(s, n) == SubSeq(s, n + 1, Len(s))

\* char::is_whitespace on the bytes of the model.
IsWhitespace(ch) == ch \in {" ", "\t", "\n", "\r"}

\* str::trim
RECURSIVE TrimStart(_)
TrimStart(s) ==
    IF s # "" /\ IsWhitespace(At(s, 1)) THEN TrimStart(From(s, 1)) ELSE s

RECURSIVE TrimEnd(_)
TrimEnd(s) ==
    IF s # "" /\ IsWhitespace(At(s, Len(s)))
    THEN TrimEnd(SubSeq(s, 1, Len(s) - 1)) ELSE s

Trim(s) == TrimEnd(TrimStart(s))

\* str::trim_end_matches(char::from(0))
RECURSIVE TrimEndNul(_)
TrimEndNul(s) ==
    IF s # "" /\ At(s, Len(s)) = NUL
    THEN TrimEndNul(SubSeq(s, 1, Len(s) - 1)) ELSE s

\* str::split(ch): the pieces between the occurrences of ch, empty pieces
\* included; the empty text gives one empty piece.
RECURSIVE Split(_, _)
Split(s, ch) ==
    LET n == Find(s, ch)
    IN  IF n = 0 THEN <<s>>
        ELSE <<SubSeq(s, 1, n - 1)>> \o Split(From(s, n), ch)

\* str::lines: lines end at "\n"; a "\r" right before that "\n" is dropped
\* with it; there is no last empty line after a final "\n".
RECURSIVE Lines(_)
Lines(s) ==
    IF s = "" THEN <<>>
    ELSE LET n == Find(s, "\n")
         IN  IF n = 0 THEN <<s>>
             ELSE LET raw  == SubSeq(s, 1, n - 1)
                      line == IF raw # "" /\ At(raw, Len(raw)) = "\r"
                              THEN SubSeq(raw, 1, Len(raw) - 1) ELSE raw
                  IN  <<line>> \o Lines(From(s, n))

\* str::split_whitespace: the maximal runs of non-whitespace.
RECURSIVE SplitWhitespace(_)
SplitWhitespace(s) ==
    LET t == TrimStart(s)
    IN  IF t = "" THEN <<>>
        ELSE LET ws == { i \in 1..Len(t) : IsWhitespace(At(t, i)) }
                 e  == IF ws = {} THEN Len(t) ELSE Min(ws) - 1
             IN  <<SubSeq(t, 1, e)>> \o SplitWhitespace(From(t, e))

\* [&str]::join("\n")
RECURSIVE JoinLines(_)
JoinLines(ls) ==
    IF ls = <<>> THEN ""
    ELSE IF Len(ls) = 1 THEN ls[1]
    ELSE ls[1] \o "\n" \o JoinLines(Tail(ls))

\* Iterator::skip(n) on a sequence of lines.
Skip(ls, n) == SubSeq(ls, n + 1, Len(ls))

\* str::to_lowercase on the bytes of the model.
UpperCase == "ABCDEFGHIJKLMNOPQRSTUVWXYZ"
LowerCase == "abcdefghijklmnopqrstuvwxyz"
LowerChar(ch) ==
    LET is == { i \in 1..Len(UpperCase) : At(UpperCase, i) = ch }
    IN  IF is = {} THEN ch ELSE At(LowerCase, Min(is))

RECURSIVE ToLowercase(_)
ToLowercase(s) ==
    IF s = "" THEN "" ELSE LowerChar(At(s, 1)) \o ToLowercase(From(s, 1))

\* usize::to_string: the decimal digits of n.
Digits == "0123456789"
RECURSIVE UsizeToString(_)
UsizeToString(n) ==
    IF n < 10 THEN At(Digits, n + 1)
    ELSE UsizeToString(n \div 10) \o At(Digits, (n % 10) + 1)

\* String::from_utf8_lossy: every invalid byte becomes U+FFFD.
RECURSIVE FromUtf8Lossy(_)
FromUtf8Lossy(bytes) ==
    IF bytes = "" THEN ""
    ELSE (IF At(bytes, 1) = BADBYTE THEN REPLACEMENT ELSE At(bytes, 1))
             \o FromUtf8Lossy(From(bytes, 1))

(***************************************************************************)
(* Request parsing (connection, main.rs:48-83).                            *)
(***************************************************************************)
\* parse_header_line: Some((key, value)) as <<key, value>>, None as <<>>.
parse_header_line(line) ==
    LET separator_index == Find(line, ":")
    IN  IF separator_index = 0 THEN <<>>
        ELSE << Trim(SubSeq(line, 1, separator_index - 1)),
                Trim(From(line, separator_index)) >>

\* The loop of main.rs:75-79: the header pairs of all the given lines, in
\* order, lines without ':' skipped.
RECURSIVE HeaderPairs(_)
HeaderPairs(ls) ==
    IF ls = <<>> THEN <<>>
    ELSE LET kv == parse_header_line(Head(ls))
         IN  (IF kv = <<>> THEN <<>> ELSE <<kv>>) \o HeaderPairs(Tail(ls))

\* The request tuple of main.rs:52-83.  query is <<>> for None and <<q>>
\* for Some(q).
ParseRequest(request) ==
    LET lines == Lines(request)
    IN  IF lines = <<>>
        THEN [method |-> "", path |-> "", query |-> <<>>, headers |-> <<>>]
        ELSE LET parts   == SplitWhitespace(lines[1])
                 method  == IF Len(parts) >= 1 THEN parts[1] ELSE ""
                 rawpath == IF Len(parts) >= 2 THEN parts[2] ELSE ""
                 index   == Find(rawpath, "?")
             IN  [method  |-> method,
                  path    |-> IF index = 0 THEN rawpath
                              ELSE SubSeq(rawpath, 1, index - 1),
                  query   |-> IF index = 0 THEN <<>>
                              ELSE <<From(rawpath, index)>>,
                  headers |-> HeaderPairs(Skip(lines, 1))]

\* extract_request_body (main.rs:344-353)
extract_request_body(request) ==
    LET start_index == Find(request, "\r\n\r\n")
    IN  IF start_index = 0 THEN "" ELSE From(request, start_index + 3)

\* extract_query_string (main.rs:356-374): <<>> for None, <<q>> for Some(q).
extract_query_string(request) ==
    LET start_index == Find(request, "\r\n")
    IN  IF start_index = 0 THEN <<>>
        ELSE LET request_line == SubSeq(request, 1, start_index - 1)
                 path_index   == Find(request_line, " ")
             IN  IF path_index = 0 THEN <<>>
                 ELSE LET rest  == From(request_line, path_index - 1)
                          qmark == Find(rest, "?")
                      IN  IF qmark = 0 THEN <<>>
                          ELSE LET after == From(rest, qmark)
                                   qend  == Find(after, " ")
                               IN  IF qend = 0 THEN <<>>
                                   ELSE <<SubSeq(after, 1, qend - 1)>>

\* parse_headers (main.rs:377-401) on the script's output: the header
\* pairs before the first empty line and body_start_index.
RECURSIVE ParseHeadersFrom(_, _)
ParseHeadersFrom(lines, index) ==
    IF index > Len(lines) THEN [headers |-> <<>>, body_start_index |-> 0]
    ELSE IF lines[index] = ""
         THEN [headers |-> <<>>, body_start_index |-> index]
    ELSE LET rest == ParseHeadersFrom(lines, index + 1)
             kv   == parse_header_line(lines[index])
         IN  [headers |-> (IF kv = <<>> THEN <<>> ELSE <<kv>>)
                              \o rest.headers,
              body_start_index |-> rest.body_start_index]

parse_headers(response) == ParseHeadersFrom(Lines(response), 1)

\* headers.iter().find(|(k, _)| pred(k)).map(|(_, v)| v): the value of the
\* first pair whose key is in keys, as <<v>>, or <<>>.
RECURSIVE FindHeader(_, _, _)
FindHeader(headers, keys, lower) ==
    IF headers = <<>> THEN <<>>
    ELSE LET k == IF lower THEN ToLowercase(Head(headers)[1])
                  ELSE Head(headers)[1]
         IN  IF k \in keys THEN <<Head(headers)[2]>>
             ELSE FindHeader(Tail(headers), keys, lower)

(***************************************************************************)
(* Paths and the filesystem.                                               *)
(*                                                                         *)
(* A filesystem maps canonical paths (sequences of names below "/") to     *)
(* entries.  prog names what an executable does when it is run.            *)
(***************************************************************************)
\* root_folder (main.rs:21), an absolute directory.
RootFolder == "/srv"

Dir == [kind |-> "dir", readable |-> TRUE, exec |-> FALSE,
        content |-> "", prog |-> "none"]
File(content) == [kind |-> "file", readable |-> TRUE, exec |-> FALSE,
                  content |-> content, prog |-> "none"]
Script(prog) == [kind |-> "file", readable |-> TRUE, exec |-> TRUE,
                 content |-> "", prog |-> prog]
Absent == [kind |-> "absent", readable |-> FALSE, exec |-> FALSE,
           content |-> "", prog |-> "none"]

\* The files on disk when the server starts.
InitialFiles ==
    ( <<"srv">>                 :> Dir ) @@
    ( <<"srv", "index.html">>   :> File("<p>hi</p>") ) @@
    ( <<"srv", "a.txt">>        :> File("text") ) @@
    ( <<"srv", "data.bin">>     :> File("\r\n#!\n") ) @@
    ( <<"srv", "pub">>          :> Dir ) @@
    ( <<"srv", "pub", "s.css">> :> File("b{}") ) @@
    ( <<"srv", "forbidden.js">> :> File("f()") ) @@
    ( <<"srv", "secret.txt">>   :> [File("key") EXCEPT !.readable = FALSE] ) @@
    ( <<"srv", "tool">>         :> Script("hello") ) @@
    ( <<"srv", "scripts">>      :> Dir ) @@
    ( <<"srv", "scripts", "echo">> :> Script("echo") ) @@
    ( <<"srv", "scripts", "fail">> :> Script("fail") ) @@
    ( <<"srv", "scripts", "quit">> :> Script("quit") ) @@
    ( <<"srv", "scripts", "data">> :> File("d") ) @@
    ( <<"srv", "scripts", "clen">> :> Script("clen") ) @@
    ( <<"srv", "scripts", "nohdr">> :> Script("nohdr") ) @@
    ( <<"srv", "scripts", "hang">> :> Script("hang") ) @@
    ( <<"etc">>                 :> Dir ) @@
    ( <<"etc", "passwd">>       :> File("root:x") ) @@
    ( <<"bin">>                 :> Dir ) @@
    ( <<"bin", "id">>           :> Script("hello") )

\* The file another process may remove while the server runs.
RacingFile == <<"srv", "a.txt">>

Entry(f, p) == IF p \in DOMAIN f THEN f[p] ELSE Absent
IsDir(f, p) == p = <<>> \/ Entry(f, p).kind = "dir"

\* &path[1..] (main.rs:108, 258) panics when byte index 1 is past the end
\* or inside a multi-byte character.
SliceFrom1Panics(path) == path = "" \/ StartsWith(path, REPLACEMENT)

\* Path::join: an absolute argument replaces the base.
Join(base, rel) ==
    IF StartsWith(rel, "/") THEN rel
    ELSE IF base # "" /\ At(base, Len(base)) = "/" THEN base \o rel
    ELSE base \o "/" \o rel

\* The operating system's lookup of an absolute path, component by
\* component: "." and empty components stay, ".." goes to the parent (of
\* "/" it is "/"), and every step needs a directory to step from.
\* <<p>> for the canonical path p found, <<>> for an error.
RECURSIVE Walk(_, _, _)
Walk(f, cur, comps) ==
    IF ~IsDir(f, cur) THEN <<>>
    ELSE IF comps = <<>> THEN <<cur>>
    ELSE LET h == Head(comps)
             t == Tail(comps)
         IN  IF h \in {"", "."} THEN Walk(f, cur, t)
             ELSE IF h = ".."
                  THEN Walk(f, SubSeq(cur, 1, Len(cur) - 1), t)
             ELSE LET nxt == Append(cur, h)
                  IN  IF t = <<>>
                      THEN (IF Entry(f, nxt).kind = "absent"
                            THEN <<>> ELSE <<nxt>>)
                      ELSE Walk(f, nxt, t)

\* A path with a zero byte is refused before the operating system sees it.
Resolve(f, full) ==
    IF Find(full, NUL) # 0 THEN <<>> ELSE Walk(f, <<>>, Split(full, "/"))

\* Path::is_file
is_file(f, full) ==
    LET r == Resolve(f, full)
    IN  r # <<>> /\ Entry(f, r[1]).kind = "file"

\* fs::read: <<bytes>> for Ok(bytes), <<>> for Err.
fs_read(f, full) ==
    LET r == Resolve(f, full)
    IN  IF r # <<>> /\ Entry(f, r[1]).kind = "file" /\ Entry(f, r[1]).readable
        THEN <<Entry(f, r[1]).content>> ELSE <<>>

\* Path::extension: what follows the last '.' of the file name, when the
\* name has a '.' that is not its first byte; <<>> for None.
Extension(full) ==
    LET comps == Split(full, "/")
        name  == comps[Len(comps)]
        dots  == { i \in 1..Len(name) : At(name, i) = "." }
        last  == CHOOSE i \in dots : \A j \in dots : j <= i
    IN  IF dots = {} \/ name = ".." \/ last = 1 THEN <<>>
        ELSE <<From(name, last)>>

\* content_type with "text/plain" for an extension that is not in the table.
content_type_DefaultsToText(file_path) ==
    LET ext == Extension(file_path)
    IN  IF ext = <<"txt">> THEN "text/plain; charset=utf-8"
        ELSE IF ext = <<"html">> THEN "text/html; charset=utf-8"
        ELSE IF ext = <<"css">> THEN "text/css; charset=utf-8"
        ELSE IF ext = <<"js">> THEN "text/javascript; charset=utf-8"
        ELSE IF ext = <<"jpg">> THEN "image/jpeg"
        ELSE IF ext = <<"jpeg">> THEN "image/jpeg"
        ELSE IF ext = <<"png">> THEN "image/png"
        ELSE IF ext = <<"zip">> THEN "application/zip"
        ELSE "text/plain"

\* content_type (main.rs:237-249)
content_type(file_path) ==
    LET ext == Extension(file_path)
    IN  IF ext = <<"txt">> THEN "text/plain; charset=utf-8"
        ELSE IF ext = <<"html">> THEN "text/html; charset=utf-8"
        ELSE IF ext = <<"css">> THEN "text/css; charset=utf-8"
        ELSE IF ext = <<"js">> THEN "text/javascript; charset=utf-8"
        ELSE IF ext = <<"jpg">> THEN "image/jpeg"
        ELSE IF ext = <<"jpeg">> THEN "image/jpeg"
        ELSE IF ext = <<"png">> THEN "image/png"
        ELSE IF ext = <<"zip">> THEN "application/zip"
        ELSE "application/octet-stream"

(***************************************************************************)
(* Child processes.                                                        *)
(***************************************************************************)
\* What each executable of InitialFiles does with its standard input.
\* "echo" copies its input after a header block; "fail" prints and exits
\* with status 1; "quit" and "hello" print without reading their input;
\* "clen" prints a Content-length of its own; "nohdr" prints no empty line;
\* "hang" never exits.
ReadsStdin(prog) == prog = "echo"

Terminates(prog) == prog # "hang"

Run(prog, stdin) ==
    IF prog = "echo"
    THEN [stdout |-> "Content-Type: text/plain\n\n" \o stdin,
          stderr |-> "", status |-> 0]
    ELSE IF prog = "fail"
    THEN [stdout |-> "Content-Type: text/plain\n\nleak",
          stderr |-> "trace", status |-> 1]
    ELSE IF prog = "quit"
    THEN [stdout |-> "Content-Type: text/html\n\n<b>ok</b>",
          stderr |-> "", status |-> 0]
    ELSE IF prog = "clen"
    THEN [stdout |-> "Content-length: 99\n\nhi",
          stderr |-> "", status |-> 0]
    ELSE IF prog = "nohdr"
    THEN [stdout |-> "Content-type: text/html\n<p>x</p>",
          stderr |-> "", status |-> 0]
    ELSE [stdout |-> "hi", stderr |-> "warn", status |-> 0]

\* Command::env: the environment with key set to value.
EnvSet(env, key, value) ==
    [k \in DOMAIN env \cup {key} |-> IF k = key THEN value ELSE env[k]]

\* The (key, value) of one piece of the query string (main.rs:176-182,
\* 268-274): the first two pieces of split('='), "" for a missing one.
QueryPair(pair) ==
    LET split == Split(pair, "=")
    IN  << split[1], IF Len(split) >= 2 THEN split[2] ELSE "" >>

\* The loops of main.rs:184-187 and 275-277 over the pieces of split('&').
RECURSIVE EnvQuery(_, _)
EnvQuery(env, pairs) ==
    IF pairs = <<>> THEN env
    ELSE LET kv == QueryPair(Head(pairs))
         IN  EnvQuery(EnvSet(env, "Query_" \o kv[1], kv[2]), Tail(pairs))

\* The loop of main.rs:191-193 over the request headers.
RECURSIVE EnvHeaders(_, _)
EnvHeaders(env, hs) ==
    IF hs = <<>> THEN env
    ELSE EnvHeaders(EnvSet(env, Head(hs)[1], Head(hs)[2]), Tail(hs))

NoEnv == [k \in {} |-> ""]

\* The variables execute_script sets for the child (main.rs:174-196).
GetEnv(req) ==
    LET q == IF req.query = <<>> THEN NoEnv
             ELSE EnvQuery(NoEnv, Split(req.query[1], "&"))
        h == EnvHeaders(q, req.headers)
    IN  EnvSet(EnvSet(h, "Method", "GET"), "Path", req.path)

\* The variables post sets for the child (main.rs:266-282).
PostEnv(request, path) ==
    LET qs == extract_query_string(request)
        q  == IF qs = <<>> THEN NoEnv ELSE EnvQuery(NoEnv, Split(qs[1], "&"))
    IN  EnvSet(EnvSet(q, "Method", "POST"), "Path", path)

\* spawn fails for a file that is not executable, and for a variable name
\* or value that holds a zero byte.
SpawnOk(f, full, env) ==
    LET r == Resolve(f, full)
    IN  /\ r # <<>>
        /\ Entry(f, r[1]).exec
        /\ \A k \in DOMAIN env : Find(k, NUL) = 0 /\ Find(env[k], NUL) = 0

NoChild == [state |-> "none", exe |-> <<>>, prog |-> "none", env |-> NoEnv,
            stdin |-> "", stdin_open |-> FALSE]

(***************************************************************************)
(* Responses.  Each write_all to the socket is one element of sock[c]: a   *)
(* status line (status 0 when the write has none), headers, body bytes.    *)
(***************************************************************************)
StatusText(code) ==
    IF code = 200 THEN "OK"
    ELSE IF code = 403 THEN "Forbidden"
    ELSE IF code = 404 THEN "Not Found"
    ELSE IF code = 405 THEN "Method Not Allowed"
    ELSE "Internal Server Error"

\* The fixed error responses (main.rs:91, 113, 125, 156, 227, 231, 331, 336).
ErrorResponse(code) ==
    [status  |-> code,
     headers |-> << <<"Connection", "close">> >>,
     body    |-> "<html>" \o UsizeToString(code) \o " " \o StatusText(code)
                     \o "</html>"]

\* The format! of main.rs:142-146, 221-224 and 322-325.
OkResponse(ctype, clen, body) ==
    [status  |-> 200,
     headers |-> << <<"Content-Type", ctype>>, <<"Content-Length", clen>>,
                    <<"Connection", "close">> >>,
     body    |-> body]

\* The second write of a static file (main.rs:152): the contents alone.
BodyWrite(bytes) == [status |-> 0, headers |-> <<>>, body |-> bytes]

\* The response execute_script builds from a child's output
\* (main.rs:208-228).
GetScriptResponse(out) ==
    IF out.status = 0
    THEN LET output_str == FromUtf8Lossy(out.stdout)
             parsed     == parse_headers(output_str)
             body       == JoinLines(Skip(Lines(output_str),
                                          parsed.body_start_index))
             ct == FindHeader(parsed.headers, {"Content-type"}, FALSE)
             cl == FindHeader(parsed.headers, {"Content-length"}, FALSE)
         IN  OkResponse(IF ct = <<>> THEN "text/plain" ELSE ct[1],
                        IF cl = <<>> THEN UsizeToString(Len(body)) ELSE cl[1],
                        body)
    ELSE ErrorResponse(500)

\* post without the test of the exit status of main.rs:300.
PostScriptResponse_IgnoresStatus(out) ==
    LET output_str   == FromUtf8Lossy(out.stdout)
        parsed       == parse_headers(output_str)
        body_content == JoinLines(Skip(Lines(output_str),
                                       parsed.body_start_index))
        trimmed_body == TrimEndNul(body_content)
        ct == FindHeader(parsed.headers, {"content-type"}, TRUE)
    IN  OkResponse(IF ct = <<>> THEN "text/plain" ELSE ct[1],
                   UsizeToString(Len(trimmed_body)),
                   trimmed_body)

\* The response post builds from a child's output (main.rs:300-333).
PostScriptResponse(out) ==
    IF out.status = 0
    THEN LET output_str   == FromUtf8Lossy(out.stdout)
             parsed       == parse_headers(output_str)
             body_content == JoinLines(Skip(Lines(output_str),
                                            parsed.body_start_index))
             trimmed_body == TrimEndNul(body_content)
             ct == FindHeader(parsed.headers, {"content-type"}, TRUE)
         IN  OkResponse(IF ct = <<>> THEN "text/plain" ELSE ct[1],
                        UsizeToString(Len(trimmed_body)),
                        trimmed_body)
    ELSE ErrorResponse(500)

(***************************************************************************)
(* What clients send.                                                      *)
(***************************************************************************)
Methods == {"GET", "POST", "DELETE"}

Targets ==
    { "/", "/index.html", "/a.txt", "/a.txt?k=v", "/data.bin", "/pub",
      "/pub/s.css", "/pub/../a.txt", "/forbidden.js", "/secret.txt",
      "/tool", "/nosuch", "/scripts/echo", "/scripts/echo?k=v&j",
      "/scripts/fail", "/scripts/quit", "/scripts/data", "/scripts/none",
      "/scripts/clen", "/scripts/nohdr", "/scripts/hang",
      "/../etc/passwd", "/pub/../../etc/passwd", "/pub/../../bin/id",
      "//etc/passwd", "index.html", "!a.txt" }

\* Request lines of three tokens, and of fewer and of more.
RequestLines ==
    { m \o " " \o t \o " HTTP/1.1" : m \in Methods, t \in Targets }
        \cup { m \o " " \o t : m \in Methods,
                               t \in {"/index.html", "/scripts/echo"} }
        \cup { m \o " " \o t \o " HTTP/1.1 x" :
                   m \in Methods, t \in {"/index.html", "/scripts/echo"} }
        \cup Methods \cup {""}

HeaderBlocks == {"", "Host: h\r\n", "Host: h\r\nHost: g\r\n"}

Bodies == {"", "hello", "a\r\nb", "k:v"}

\* The bytes a client writes to its connection; "" is a client that closes
\* without writing.
ClientSends ==
    { l \o "\r\n" \o h \o "\r\n" \o b :
          l \in RequestLines, h \in HeaderBlocks, b \in Bodies } \cup {""}

\* The buffer after stream.read (main.rs:46-47): the first BufLen bytes
\* the client sent, the rest of the buffer left zero.
RECURSIVE Zeros(_)
Zeros(n) == IF n <= 0 THEN "" ELSE NUL \o Zeros(n - 1)

ReadBuffer(bytes) ==
    IF Len(bytes) >= BufLen THEN SubSeq(bytes, 1, BufLen)
    ELSE bytes \o Zeros(BufLen - Len(bytes))

(***************************************************************************)
(* State.                                                                  *)
(***************************************************************************)
VARIABLES
    fs,         \* the filesystem
    sent,       \* sent[c]: the bytes the client wrote to connection c
    pc,         \* pc[c]: where the handler task of connection c stands
    request,    \* request[c]: the request text (main.rs:48)
    req,        \* req[c]: method, path, query, headers (main.rs:52-83)
    full_path,  \* full_path[c] (main.rs:108, 258)
    child,      \* child[c]: the child process the handler spawned
    output,     \* output[c]: <<out>> once the child's output is collected
    opened,     \* opened[c]: the files the handler has read or executed
    sock        \* sock[c]: the writes to the client's socket, in order

vars == <<fs, sent, pc, request, req, full_path, child, output, opened, sock>>

\* A spawn whose child inherits what the other handlers have set: the
\* variables kept in the environment of the server process
\* (std::env::set_var) instead of in each Command.
Spawned_SharedEnv(f, full, env, piped) ==
    LET exe    == Resolve(f, full)[1]
        others == { d \in Conns : child[d].state # "none" }
        keys   == DOMAIN env \cup UNION { DOMAIN child[d].env : d \in others }
    IN  [state |-> "running", exe |-> exe, prog |-> Entry(f, exe).prog,
         env |-> [k \in keys |->
                    IF k \in DOMAIN env THEN env[k]
                    ELSE child[CHOOSE d \in others :
                                   k \in DOMAIN child[d].env].env[k]],
         stdin |-> "", stdin_open |-> piped]

\* Command::spawn (main.rs:198-203, 284-289): the running child, with the
\* variables of its own Command.
Spawned(f, full, env, piped) ==
    LET exe == Resolve(f, full)[1]
    IN  [state |-> "running", exe |-> exe, prog |-> Entry(f, exe).prog,
         env |-> env, stdin |-> "", stdin_open |-> piped]

(***************************************************************************)
(* Initial state.                                                          *)
(***************************************************************************)
NoReq == [method |-> "", path |-> "", query |-> <<>>, headers |-> <<>>]

Terminal == {"closed", "failed", "panicked"}

TypeOK ==
    /\ pc \in [Conns -> {"idle", "spawned", "await_request", "dispatch",
                         "get_read",
                         "get_output", "post_write", "post_wait"}
                            \cup Terminal]
    /\ \A c \in Conns : Len(sock[c]) <= 2

Init ==
    /\ fs = InitialFiles
    /\ sent = [c \in Conns |-> ""]
    /\ pc = [c \in Conns |-> "idle"]
    /\ request = [c \in Conns |-> ""]
    /\ req = [c \in Conns |-> NoReq]
    /\ full_path = [c \in Conns |-> ""]
    /\ child = [c \in Conns |-> NoChild]
    /\ output = [c \in Conns |-> <<>>]
    /\ opened = [c \in Conns |-> {}]
    /\ sock = [c \in Conns |-> <<>>]

(***************************************************************************)
(* main (main.rs:29-40) and the start of connection (main.rs:44-83).       *)
(***************************************************************************)
\* The handler tasks that occupy a worker thread: those inside the
\* synchronous calls stream.read (main.rs:47) and fs::read (main.rs:135)
\* and in the code between them.  A task at an .await (main.rs:202, 292,
\* 297) has given its worker back.
OnWorker == { c \in Conns : pc[c] \in {"await_request", "dispatch", "get_read"} }

FreeWorker == Cardinality(OnWorker) < NumWorkers

\* listener.accept() returns a stream and the handler task is spawned
\* (main.rs:31-39); accept runs on the thread of main, not on a worker.
Accept(c) ==
    /\ pc[c] = "idle"
    /\ pc' = [pc EXCEPT ![c] = "spawned"]
    /\ UNCHANGED <<sent, fs, request, req, full_path, child, output, opened, sock>>

\* A free worker thread starts the task, which calls stream.read
\* (main.rs:47) and blocks the worker until the client's bytes arrive.
Start(c) ==
    /\ pc[c] = "spawned"
    /\ FreeWorker
    /\ pc' = [pc EXCEPT ![c] = "await_request"]
    /\ UNCHANGED <<sent, fs, request, req, full_path, child, output, opened, sock>>

\* stream.read fills the buffer with what the client sent, one of sends;
\* the request is parsed.
ReadRequestFrom(c, sends) ==
    /\ pc[c] = "await_request"
    /\ \E bytes \in sends :
          LET text == FromUtf8Lossy(ReadBuffer(bytes))
          IN  /\ sent' = [sent EXCEPT ![c] = bytes]
              /\ request' = [request EXCEPT ![c] = text]
              /\ req' = [req EXCEPT ![c] = ParseRequest(text)]
    /\ pc' = [pc EXCEPT ![c] = "dispatch"]
    /\ UNCHANGED <<fs, full_path, child, output, opened, sock>>

ReadRequest(c) == ReadRequestFrom(c, ClientSends)

\* stream.read returns an error (the peer reset the connection): the `?`
\* of main.rs:47 returns it.
ReadFails(c) ==
    /\ pc[c] = "await_request"
    /\ pc' = [pc EXCEPT ![c] = "failed"]
    /\ UNCHANGED <<sent, fs, request, req, full_path, child, output, opened, sock>>

\* The `_` arm of the match (main.rs:89-94).
MethodNotAllowed(c) ==
    /\ pc[c] = "dispatch"
    /\ req[c].method \notin {"GET", "POST"}
    /\ sock' = [sock EXCEPT ![c] = Append(@, ErrorResponse(405))]
    /\ pc' = [pc EXCEPT ![c] = "closed"]
    /\ UNCHANGED <<sent, fs, request, req, full_path, child, output, opened>>

\* get and post start with &path[1..] (main.rs:108, 258), which panics on
\* a path it cannot slice.
SlicePanic(c) ==
    /\ pc[c] = "dispatch"
    /\ req[c].method \in {"GET", "POST"}
    /\ SliceFrom1Panics(req[c].path)
    /\ pc' = [pc EXCEPT ![c] = "panicked"]
    /\ UNCHANGED <<sent, fs, request, req, full_path, child, output, opened, sock>>

(***************************************************************************)
(* get (main.rs:99-161) and execute_script (main.rs:164-233).              *)
(***************************************************************************)
IsForbidden(path) == StartsWith(path, "/..") \/ StartsWith(path, "/forbidden")

IsScriptPath(path) == StartsWith(path, "/scripts/")

\* A match that sends every verb but POST to get.
GetDispatched_AnyVerb(c) ==
    /\ pc[c] = "dispatch"
    /\ req[c].method # "POST"
    /\ ~SliceFrom1Panics(req[c].path)

\* The "GET" arm of the match (main.rs:87), past the slice of main.rs:108.
GetDispatched(c) ==
    /\ pc[c] = "dispatch"
    /\ req[c].method = "GET"
    /\ ~SliceFrom1Panics(req[c].path)

\* The forbidden check without its return: the handler goes on to read
\* the file after the 403.
GetForbidden_NoReturn(c) ==
    /\ GetDispatched(c)
    /\ IsForbidden(req[c].path)
    /\ full_path' = [full_path EXCEPT
                        ![c] = Join(RootFolder, From(req[c].path, 1))]
    /\ sock' = [sock EXCEPT ![c] = Append(@, ErrorResponse(403))]
    /\ pc' = [pc EXCEPT ![c] = "get_read"]
    /\ UNCHANGED <<sent, fs, request, req, child, output, opened>>

\* The forbidden check (main.rs:110-116).
GetForbidden(c) ==
    /\ GetDispatched(c)
    /\ IsForbidden(req[c].path)
    /\ full_path' = [full_path EXCEPT
                        ![c] = Join(RootFolder, From(req[c].path, 1))]
    /\ sock' = [sock EXCEPT ![c] = Append(@, ErrorResponse(403))]
    /\ pc' = [pc EXCEPT ![c] = "closed"]
    /\ UNCHANGED <<sent, fs, request, req, child, output, opened>>

\* A path under /scripts/ (main.rs:118-130): execute_script answers 404
\* for a path that is no file, and spawns the file otherwise; a spawn that
\* fails panics at the expect of main.rs:203.
GetScript(c) ==
    /\ GetDispatched(c)
    /\ ~IsForbidden(req[c].path)
    /\ IsScriptPath(req[c].path)
    /\ LET fp  == Join(RootFolder, From(req[c].path, 1))
           env == GetEnv(req[c])
       IN  /\ full_path' = [full_path EXCEPT ![c] = fp]
           /\ IF ~is_file(fs, fp)
              THEN /\ sock' = [sock EXCEPT ![c] = Append(@, ErrorResponse(404))]
                   /\ pc' = [pc EXCEPT ![c] = "closed"]
                   /\ UNCHANGED <<child, opened>>
              ELSE IF SpawnOk(fs, fp, env)
              THEN /\ child' = [child EXCEPT
                                   ![c] = Spawned(fs, fp, env, FALSE)]
                   /\ opened' = [opened EXCEPT ![c] = @ \cup
                          {[op |-> "exec", path |-> Resolve(fs, fp)[1]]}]
                   /\ pc' = [pc EXCEPT ![c] = "get_output"]
                   /\ UNCHANGED sock
              ELSE /\ pc' = [pc EXCEPT ![c] = "panicked"]
                   /\ UNCHANGED <<child, opened, sock>>
    /\ UNCHANGED <<sent, fs, request, req, output>>

\* output().await returns (main.rs:198-203): the child has run with an
\* empty standard input; its output becomes the response (main.rs:208-228,
\* 120-121).
GetOutput(c) ==
    /\ pc[c] = "get_output"
    /\ Terminates(child[c].prog)
    /\ FreeWorker
    /\ LET out == Run(child[c].prog, "")
       IN  /\ output' = [output EXCEPT ![c] = <<out>>]
           /\ sock' = [sock EXCEPT ![c] = Append(@, GetScriptResponse(out))]
    /\ child' = [child EXCEPT ![c].state = "exited"]
    /\ pc' = [pc EXCEPT ![c] = "closed"]
    /\ UNCHANGED <<sent, fs, request, req, full_path, opened>>

\* Any other path (main.rs:132-158): the is_file check.
GetStatic(c) ==
    /\ GetDispatched(c)
    /\ ~IsForbidden(req[c].path)
    /\ ~IsScriptPath(req[c].path)
    /\ LET fp == Join(RootFolder, From(req[c].path, 1))
       IN  /\ full_path' = [full_path EXCEPT ![c] = fp]
           /\ IF is_file(fs, fp)
              THEN /\ pc' = [pc EXCEPT ![c] = "get_read"]
                   /\ UNCHANGED sock
              ELSE /\ sock' = [sock EXCEPT ![c] = Append(@, ErrorResponse(404))]
                   /\ pc' = [pc EXCEPT ![c] = "closed"]
    /\ UNCHANGED <<sent, fs, request, req, child, output, opened>>

\* fs::read(&full_path)? (main.rs:135) and the two writes of main.rs:149
\* and 152; a read error is returned by the `?`.
GetRead(c) ==
    /\ pc[c] = "get_read"
    /\ LET contents == fs_read(fs, full_path[c])
       IN  IF contents = <<>>
           THEN /\ pc' = [pc EXCEPT ![c] = "failed"]
                /\ UNCHANGED <<sock, opened>>
           ELSE /\ sock' = [sock EXCEPT ![c] =
                       @ \o << OkResponse(content_type(full_path[c]),
                                          UsizeToString(Len(contents[1])),
                                          ""),
                               BodyWrite(contents[1]) >>]
                /\ opened' = [opened EXCEPT ![c] = @ \cup
                       {[op |-> "read",
                         path |-> Resolve(fs, full_path[c])[1]]}]
                /\ pc' = [pc EXCEPT ![c] = "closed"]
    /\ UNCHANGED <<sent, fs, request, req, full_path, child, output>>

(***************************************************************************)
(* post (main.rs:252-341).                                                 *)
(***************************************************************************)
\* Up to the spawn (main.rs:258-289): 404 for a path that is no file; a
\* spawn that fails panics at the expect of main.rs:289.
Post(c) ==
    /\ pc[c] = "dispatch"
    /\ req[c].method = "POST"
    /\ ~SliceFrom1Panics(req[c].path)
    /\ LET fp  == Join(RootFolder, From(req[c].path, 1))
           env == PostEnv(request[c], req[c].path)
       IN  /\ full_path' = [full_path EXCEPT ![c] = fp]
           /\ IF ~is_file(fs, fp)
              THEN /\ sock' = [sock EXCEPT ![c] = Append(@, ErrorResponse(404))]
                   /\ pc' = [pc EXCEPT ![c] = "closed"]
                   /\ UNCHANGED <<child, opened>>
              ELSE IF SpawnOk(fs, fp, env)
              THEN /\ child' = [child EXCEPT
                                   ![c] = Spawned(fs, fp, env, TRUE)]
                   /\ opened' = [opened EXCEPT ![c] = @ \cup
                          {[op |-> "exec", path |-> Resolve(fs, fp)[1]]}]
                   /\ pc' = [pc EXCEPT ![c] = "post_write"]
                   /\ UNCHANGED sock
              ELSE /\ pc' = [pc EXCEPT ![c] = "panicked"]
                   /\ UNCHANGED <<child, opened, sock>>
    /\ UNCHANGED <<sent, fs, request, req, output>>

\* A child that does not read its input may exit before the handler
\* writes to it.
ChildExitsEarly(c) ==
    /\ pc[c] = "post_write"
    /\ child[c].state = "running"
    /\ ~ReadsStdin(child[c].prog)
    /\ Terminates(child[c].prog)
    /\ child' = [child EXCEPT ![c].state = "exited"]
    /\ UNCHANGED <<sent, fs, pc, request, req, full_path, output, opened, sock>>

\* A write whose error is unwrapped instead of returned.
PostWriteStdin_Unwrap(c) ==
    /\ pc[c] = "post_write"
    /\ FreeWorker
    /\ LET body == extract_request_body(request[c])
       IN  IF child[c].state = "exited" /\ body # ""
           THEN /\ child' = [child EXCEPT ![c].stdin_open = FALSE]
                /\ pc' = [pc EXCEPT ![c] = "panicked"]
           ELSE /\ child' = [child EXCEPT ![c].stdin = body,
                                          ![c].stdin_open = FALSE]
                /\ pc' = [pc EXCEPT ![c] = "post_wait"]
    /\ UNCHANGED <<sent, fs, request, req, full_path, output, opened, sock>>

\* stdin.write_all(body).await? and the drop of stdin (main.rs:291-293).
\* Writing a non-empty body to the pipe of a child that has exited fails
\* (broken pipe) and the `?` returns the error; a body of no bytes is
\* written without a system call.
PostWriteStdin(c) ==
    /\ pc[c] = "post_write"
    /\ FreeWorker
    /\ LET body == extract_request_body(request[c])
       IN  IF child[c].state = "exited" /\ body # ""
           THEN /\ child' = [child EXCEPT ![c].stdin_open = FALSE]
                /\ pc' = [pc EXCEPT ![c] = "failed"]
           ELSE /\ child' = [child EXCEPT ![c].stdin = body,
                                          ![c].stdin_open = FALSE]
                /\ pc' = [pc EXCEPT ![c] = "post_wait"]
    /\ UNCHANGED <<sent, fs, request, req, full_path, output, opened, sock>>

\* wait_with_output().await returns (main.rs:295-298) and the response is
\* written (main.rs:300-333).
PostWait(c) ==
    /\ pc[c] = "post_wait"
    /\ Terminates(child[c].prog)
    /\ FreeWorker
    /\ LET out == Run(child[c].prog, child[c].stdin)
       IN  /\ output' = [output EXCEPT ![c] = <<out>>]
           /\ sock' = [sock EXCEPT ![c] = Append(@, PostScriptResponse(out))]
    /\ child' = [child EXCEPT ![c].state = "exited"]
    /\ pc' = [pc EXCEPT ![c] = "closed"]
    /\ UNCHANGED <<sent, fs, request, req, full_path, opened>>

(***************************************************************************)
(* The environment of the server.                                          *)
(***************************************************************************)
\* Another process removes a file.
FsRemove ==
    /\ fs[RacingFile].kind = "file"
    /\ fs' = [fs EXCEPT ![RacingFile] = Absent]
    /\ UNCHANGED <<sent, pc, request, req, full_path, child, output, opened, sock>>

\* A finished handler task is dropped, with its stream, and its slot is
\* free for the next connection.
Reap(c) ==
    /\ pc[c] \in Terminal
    /\ pc' = [pc EXCEPT ![c] = "idle"]
    /\ sent' = [sent EXCEPT ![c] = ""]
    /\ request' = [request EXCEPT ![c] = ""]
    /\ req' = [req EXCEPT ![c] = NoReq]
    /\ full_path' = [full_path EXCEPT ![c] = ""]
    /\ child' = [child EXCEPT ![c] = NoChild]
    /\ output' = [output EXCEPT ![c] = <<>>]
    /\ opened' = [opened EXCEPT ![c] = {}]
    /\ sock' = [sock EXCEPT ![c] = <<>>]
    /\ UNCHANGED fs

\* The steps of the handler of connection c after its accept.
Handler(c) ==
    \/ Start(c)
    \/ ReadRequest(c)
    \/ ReadFails(c)
    \/ MethodNotAllowed(c)
    \/ SlicePanic(c)
    \/ GetForbidden(c)
    \/ GetScript(c)
    \/ GetOutput(c)
    \/ GetStatic(c)
    \/ GetRead(c)
    \/ Post(c)
    \/ ChildExitsEarly(c)
    \/ PostWriteStdin(c)
    \/ PostWait(c)

\* Handlers share nothing but the filesystem: each owns its stream, its
\* buffer and its clone of root_folder (main.rs:31-35).  Spec follows the
\* connections one at a time.
AcceptNext(c) ==
    /\ \A d \in Conns : pc[d] = "idle"
    /\ Accept(c)

Next ==
    \/ \E c \in Conns : AcceptNext(c)
    \/ \E c \in Conns : Handler(c)
    \/ \E c \in Conns : Reap(c)
    \/ FsRemove

Spec == Init /\ [][Next]_vars

\* The steps a handler takes by itself once a worker runs it; the arrival
\* of the client's bytes (ReadRequest, ReadFails) is the client's doing.
HandlerStep(c) ==
    \/ Start(c)
    \/ MethodNotAllowed(c)
    \/ SlicePanic(c)
    \/ GetForbidden(c)
    \/ GetScript(c)
    \/ GetOutput(c)
    \/ GetStatic(c)
    \/ GetRead(c)
    \/ Post(c)
    \/ PostWriteStdin(c)
    \/ PostWait(c)

\* The runtime keeps running every task that can run.
FairSpec == Spec /\ \A c \in Conns : WF_vars(HandlerStep(c))

(***************************************************************************)
(* Simultaneous connections.  The listener accepts while handlers run      *)
(* (main.rs:29-40), and the handlers interleave at every step.  The        *)
(* clients send well-formed requests: two script requests and one file.    *)
(***************************************************************************)
ConcSends ==
    { "GET /scripts/echo?k=v HTTP/1.1\r\nHost: h\r\n\r\n",
      "POST /scripts/quit?j=w HTTP/1.1\r\n\r\nhello",
      "GET /a.txt HTTP/1.1\r\n\r\n" }

ConcHandler(c) ==
    \/ Start(c)
    \/ ReadRequestFrom(c, ConcSends)
    \/ GetScript(c)
    \/ GetOutput(c)
    \/ GetStatic(c)
    \/ GetRead(c)
    \/ Post(c)
    \/ ChildExitsEarly(c)
    \/ PostWriteStdin(c)
    \/ PostWait(c)

NextConc ==
    \/ \E c \in Conns : Accept(c)
    \/ \E c \in Conns : ConcHandler(c)
    \/ \E c \in Conns : Reap(c)

SpecConc == Init /\ [][NextConc]_vars

(***************************************************************************)
(* What a client sees of connection c.                                     *)
(***************************************************************************)
\* The request bytes were read and parsed (the buffer is never empty).
WasRead(c) == request[c] # ""

Responded(c) == sock[c] # <<>>

\* The status line of the response, 0 when nothing was written.
Status(c) == IF sock[c] = <<>> THEN 0 ELSE sock[c][1].status

RECURSIVE Bodies_(_)
Bodies_(ws) == IF ws = <<>> THEN "" ELSE Head(ws).body \o Bodies_(Tail(ws))

\* All the body bytes written, in order.
Body(c) == Bodies_(sock[c])

\* The value of a response header, <<v>>, or <<>> when it is absent.
Header(c, name) ==
    IF sock[c] = <<>> THEN <<>>
    ELSE FindHeader(sock[c][1].headers, {name}, FALSE)

\* The canonical path of the root, and the canonical paths at or below it.
RootCanon == <<"srv">>

UnderRoot(p) ==
    Len(p) >= Len(RootCanon) /\ SubSeq(p, 1, Len(RootCanon)) = RootCanon

\* The canonical path of a text path, "." and ".." taken lexically.
RECURSIVE Lexical(_, _)
Lexical(cur, comps) ==
    IF comps = <<>> THEN cur
    ELSE IF Head(comps) \in {"", "."} THEN Lexical(cur, Tail(comps))
    ELSE IF Head(comps) = ".."
         THEN Lexical(SubSeq(cur, 1, Len(cur) - 1), Tail(comps))
    ELSE Lexical(Append(cur, Head(comps)), Tail(comps))

\* The target path has a ".." segment and, taken below the root, leaves it.
EscapesRoot(path) ==
    /\ StartsWith(path, "/")
    /\ \E i \in DOMAIN Split(path, "/") : Split(path, "/")[i] = ".."
    /\ ~UnderRoot(Lexical(<<>>, Split(RootFolder \o path, "/")))

(***************************************************************************)
(* Claims.                                                                 *)
(***************************************************************************)

\* C1: a GET or POST whose target path has ".." segments that resolve
\* outside the root is answered 403 Forbidden, and its handler never reads
\* or executes a file outside the root.
C1_TraversalIsForbidden ==
    \A c \in Conns :
        (WasRead(c) /\ req[c].method \in {"GET", "POST"}
                    /\ EscapesRoot(req[c].path))
            => /\ \A o \in opened[c] : UnderRoot(o.path)
               /\ pc[c] \notin {"get_read", "get_output", "post_write",
                                "post_wait", "failed", "panicked"}
               /\ pc[c] = "closed" => Status(c) = 403

\* C2: a process is spawned only for a request path under /scripts/, and a
\* POST whose path names an existing regular file outside /scripts/ is
\* answered Forbidden.
C2_SpawnOnlyUnderScripts ==
    \A c \in Conns :
        /\ child[c].state # "none" => IsScriptPath(req[c].path)
        /\ (/\ pc[c] \in Terminal
            /\ req[c].method = "POST"
            /\ full_path[c] # ""
            /\ is_file(fs, full_path[c])
            /\ ~IsScriptPath(req[c].path))
               => Status(c) = 403

\* C3: a handler whose request bytes were read ends only after it has
\* written a response.
C3_RespondsBeforeClose ==
    \A c \in Conns : (WasRead(c) /\ pc[c] \in Terminal) => Responded(c)

\* C4: a request whose verb is neither GET nor POST is answered 405
\* whatever its path, with no file read and no process spawned; a GET or
\* POST is never answered 405.
C4_OtherVerbsGet405 ==
    \A c \in Conns :
        WasRead(c) =>
            /\ req[c].method \notin {"GET", "POST"} =>
                  /\ pc[c] \in {"dispatch", "closed"}
                  /\ opened[c] = {}
                  /\ child[c].state = "none"
                  /\ pc[c] = "closed" => (Len(sock[c]) = 1 /\ Status(c) = 405)
            /\ req[c].method \in {"GET", "POST"} =>
                  \A i \in DOMAIN sock[c] : sock[c][i].status # 405

\* A DELETE of a path under /scripts/ has been answered 405.
C4_Witness ==
    \E c \in Conns :
        /\ pc[c] = "closed"
        /\ req[c].method = "DELETE"
        /\ IsScriptPath(req[c].path)
        /\ Status(c) = 405

\* The first line of the request as the parser splits it (main.rs:59).
RequestLineTokens(c) ==
    IF Lines(request[c]) = <<>> THEN <<>>
    ELSE SplitWhitespace(Lines(request[c])[1])

\* C5: a request whose request line does not split into exactly three
\* whitespace-separated tokens is answered 400, and no file is served and
\* no script is spawned for it.
C5_MalformedLineGets400 ==
    \A c \in Conns :
        (WasRead(c) /\ Len(RequestLineTokens(c)) # 3)
            => /\ opened[c] = {}
               /\ child[c].state = "none"
               /\ pc[c] \in Terminal => Status(c) = 400

NamedFile(path) ==
    IF SliceFrom1Panics(path) THEN <<>>
    ELSE LET r == Resolve(fs, Join(RootFolder, From(path, 1)))
         IN  IF r # <<>> /\ Entry(fs, r[1]).kind = "file" /\ UnderRoot(r[1])
             THEN r ELSE <<>>

\* The extension table of the MIME lookup.
MimeTable ==
    ( "txt" :> "text/plain; charset=utf-8" ) @@
    ( "html" :> "text/html; charset=utf-8" ) @@
    ( "css" :> "text/css; charset=utf-8" ) @@
    ( "js" :> "text/javascript; charset=utf-8" ) @@
    ( "jpg" :> "image/jpeg" ) @@ ( "jpeg" :> "image/jpeg" ) @@
    ( "png" :> "image/png" ) @@ ( "zip" :> "application/zip" )

\* The last name of a canonical path and what follows its last '.'.
MimeOf(p) ==
    LET name == p[Len(p)]
        dots == { i \in 2..Len(name) : At(name, i) = "." }
        ext  == IF dots = {} THEN ""
                ELSE From(name, CHOOSE i \in dots : \A j \in dots : j <= i)
    IN  IF ext \in DOMAIN MimeTable THEN MimeTable[ext]
        ELSE "application/octet-stream"

\* The static response for the file at canonical path p.
ServesFile(c, p) ==
    /\ pc[c] = "closed"
    /\ Status(c) = 200
    /\ Body(c) = fs[p].content
    /\ Header(c, "Content-Length") = <<UsizeToString(Len(fs[p].content))>>
    /\ Header(c, "Content-Type") = <<MimeOf(p)>>

SentBody(c) ==
    LET i == Find(sent[c], "\r\n\r\n")
    IN  IF i = 0 THEN "" ELSE From(sent[c], i + 3)

\* C8: a POST to the echo script with a body B that fits in the one read,
\* has no zero byte and no trailing newline, is answered 200 with body
\* exactly B and Content-Length the length of B.
C8_EchoReturnsBody ==
    \A c \in Conns :
        (/\ pc[c] \in Terminal
         /\ req[c].method = "POST"
         /\ child[c].prog = "echo"
         /\ Len(sent[c]) <= BufLen
         /\ Find(sent[c], "\r\n\r\n") # 0
         /\ Find(SentBody(c), NUL) = 0
         /\ (SentBody(c) = "" \/ At(SentBody(c), Len(SentBody(c))) # "\n"))
            => /\ Status(c) = 200
               /\ Body(c) = SentBody(c)
               /\ Header(c, "Content-Length")
                      = <<UsizeToString(Len(SentBody(c)))>>

\* C9: a GET whose path names an existing directory under the root is
\* answered with a 200 directory listing.
C9_DirectoryIsListed ==
    \A c \in Conns :
        (/\ pc[c] \in Terminal
         /\ req[c].method = "GET"
         /\ ~SliceFrom1Panics(req[c].path)
         /\ LET r == Resolve(fs, Join(RootFolder, From(req[c].path, 1)))
            IN  r # <<>> /\ Entry(fs, r[1]).kind = "dir" /\ UnderRoot(r[1]))
            => Status(c) = 200

\* C10: when the read of a static file fails after its existence check
\* passed, the handler answers 403 or 404.
C10_FailedReadIsAnswered ==
    [][ \A c \in Conns :
          (/\ pc[c] = "get_read"
           /\ pc'[c] # "get_read"
           /\ fs_read(fs, full_path[c]) = <<>>)
              => /\ sock'[c] # <<>>
                 /\ sock'[c][1].status \in {403, 404} ]_vars

\* C11: a handler never waits forever for a script that does not exit or
\* for a client that does not send: every accepted connection is
\* eventually closed.
C11_ConnectionEventuallyCloses ==
    \A c \in Conns : (pc[c] # "idle") ~> (pc[c] \in Terminal)

(***************************************************************************)
(* C12                                                                     *)
(***************************************************************************)
\* A handler waits for its client inside stream.read.
BlockedOnClient(c) == pc[c] = "await_request"

\* C12: handlers blocked at a suspension point never prevent another
\* connection's handler from running: when every handler that holds a
\* worker thread is only waiting for its client's bytes, a handler task
\* that was spawned for an accepted connection finds a worker to run on.
C12_BlockedHandlerStarvesNoOne ==
    \A c \in Conns :
        (pc[c] = "spawned" /\ \A d \in OnWorker : BlockedOnClient(d))
            => FreeWorker

(***************************************************************************)
(* C13                                                                     *)
(***************************************************************************)
\* The pieces of the query string of connection c's own request.
OwnQueryPairs(c) ==
    IF req[c].query = <<>> THEN {}
    ELSE LET pieces == Split(req[c].query[1], "&")
         IN  { QueryPair(pieces[i]) : i \in 1..Len(pieces) }

OwnHeaders(c) == { req[c].headers[i] : i \in 1..Len(req[c].headers) }

\* C13: whatever the interleaving of simultaneous script requests, the
\* environment of each spawned child holds the Method and the Path of its
\* own request, and every other variable in it is a Query_ variable of its
\* own query string or a header of its own request, with that value.
C13_ChildSeesOnlyOwnRequest ==
    \A c \in Conns :
        child[c].state # "none" =>
            LET env == child[c].env
            IN  /\ {"Method", "Path"} \subseteq DOMAIN env
                /\ env["Method"] = req[c].method
                /\ env["Path"] = req[c].path
                /\ \A k \in DOMAIN env \ {"Method", "Path"} :
                      \/ <<k, env[k]>> \in OwnHeaders(c)
                      \/ /\ StartsWith(k, "Query_")
                         /\ <<From(k, 6), env[k]>> \in OwnQueryPairs(c)

\* Two children of different requests are alive at once.
C13_Witness ==
    \E c, d \in Conns :
        /\ child[c].state = "running"
        /\ child[d].state = "running"
        /\ child[c].env["Path"] # child[d].env["Path"]
        /\ "Query_k" \in DOMAIN child[c].env
        /\ "Query_j" \in DOMAIN child[d].env

(***************************************************************************)
(* C14                                                                     *)
(***************************************************************************)
\* The value of the last header named k of connection c's request.
LastHeaderValue(c, k) ==
    LET hs   == req[c].headers
        last == CHOOSE i \in 1..Len(hs) :
                    /\ hs[i][1] = k
                    /\ \A j \in (i + 1)..Len(hs) : hs[j][1] # k
    IN  hs[last][2]

\* C14: the child of every script invocation, by GET or by POST, has each
\* request header in its environment, under the header's name and with the
\* value of the last header of that name.
C14_HeadersReachChild ==
    \A c \in Conns :
        (child[c].state # "none" /\ IsScriptPath(req[c].path)) =>
            \A i \in 1..Len(req[c].headers) :
                LET k == req[c].headers[i][1]
                IN  k \notin {"Method", "Path"} =>
                        /\ k \in DOMAIN child[c].env
                        /\ child[c].env[k] = LastHeaderValue(c, k)

(***************************************************************************)
(* C15, C16, C17                                                           *)
(***************************************************************************)
\* The handler of connection c has answered with the output of a script
\* that exited with status zero.
ScriptSucceeded(c) ==
    /\ output[c] # <<>>
    /\ output[c][1].status = 0
    /\ Responded(c)

\* The lines of what the script of connection c printed.
OutLines(c) == Lines(output[c][1].stdout)

HasBlankLine(c) == \E i \in 1..Len(OutLines(c)) : OutLines(c)[i] = ""

\* The header block of the script's output: the header pairs of the lines
\* before the first empty line.
HeaderBlock(c) ==
    LET ls    == OutLines(c)
        blank == Min({ i \in 1..Len(ls) : ls[i] = "" })
    IN  HeaderPairs(SubSeq(ls, 1, blank - 1))

\* C15: the Content-Length of every successful script response is the
\* number of body bytes sent, whatever length the script printed.
C15_ContentLengthIsBodyLength ==
    \A c \in Conns :
        ScriptSucceeded(c) =>
            Header(c, "Content-Length") = <<UsizeToString(Len(Body(c)))>>

\* C16: when the script's output has no empty line, the whole output is
\* the body and the Content-Type is text/plain.
C16_NoBlankLineIsAllBody ==
    \A c \in Conns :
        (ScriptSucceeded(c) /\ ~HasBlankLine(c)) =>
            /\ Body(c) = output[c][1].stdout
            /\ Header(c, "Content-Type") = <<"text/plain">>

\* C17: the Content-Type of a successful script response is the value of
\* the Content-Type header of the script's header block, in whatever
\* letter case the script wrote the name; text/plain when there is none.
C17_ContentTypeAnyCase ==
    \A c \in Conns :
        (ScriptSucceeded(c) /\ HasBlankLine(c)) =>
            LET ct == FindHeader(HeaderBlock(c), {"content-type"}, TRUE)
            IN  Header(c, "Content-Type")
                    = (IF ct = <<>> THEN <<"text/plain">> ELSE ct)

(***************************************************************************)
(* C18                                                                     *)
(***************************************************************************)
\* Connection c is a POST whose handler has spawned a child.
PostChild(c) == req[c].method = "POST" /\ child[c].state # "none"

\* C18: on a POST the child is spawned first, then the whole body is
\* written to its standard input, then the pipe is closed, and only then
\* the handler waits for the child and collects its output.  The write is
\* never stuck, and a write that fails because the child has exited ends
\* the handler with an error: it does not panic, and the pipe is closed.
C18_SpawnWriteCloseWait ==
    \A c \in Conns :
        /\ pc[c] = "post_write" =>
              /\ PostChild(c)
              /\ child[c].stdin_open
              /\ child[c].stdin = ""
              /\ output[c] = <<>>
              /\ ENABLED PostWriteStdin(c)
        /\ pc[c] = "post_wait" =>
              /\ PostChild(c)
              /\ ~child[c].stdin_open
              /\ child[c].stdin = extract_request_body(request[c])
              /\ output[c] = <<>>
        /\ (PostChild(c) /\ output[c] # <<>>) =>
              /\ ~child[c].stdin_open
              /\ child[c].stdin = extract_request_body(request[c])
        /\ PostChild(c) => pc[c] # "panicked"
        /\ (PostChild(c) /\ pc[c] = "failed") =>
              /\ ~child[c].stdin_open
              /\ child[c].state = "exited"

\* A child has exited before the handler wrote a non-empty body to it, and
\* the write has failed.
C18_Witness ==
    \E c \in Conns :
        /\ PostChild(c)
        /\ pc[c] = "failed"
        /\ child[c].state = "exited"
        /\ extract_request_body(request[c]) # ""

(***************************************************************************)
(* C19                                                                     *)
(***************************************************************************)
\* The handler of connection c has entered get or post.
Dispatched(c) ==
    /\ req[c].method \in {"GET", "POST"}
    /\ pc[c] \notin {"idle", "spawned", "await_request", "dispatch"}

\* C19: the path of every request that has entered get or post begins
\* with "/".
C19_DispatchedPathHasSlash ==
    \A c \in Conns : Dispatched(c) => StartsWith(req[c].path, "/")

(***************************************************************************)
(* C20                                                                     *)
(***************************************************************************)
\* The writes to the socket of connection c that carry a status line.
StatusLines(c) == { i \in 1..Len(sock[c]) : sock[c][i].status # 0 }

\* C20: at most one status line is written per connection, and it is the
\* first write; once something was written the handler has finished; and
\* nothing is written for a script request before the script has exited
\* and its output was collected.
C20_OneResponsePerConnection ==
    \A c \in Conns :
        /\ Cardinality(StatusLines(c)) <= 1
        /\ sock[c] # <<>> => (StatusLines(c) = {1} /\ pc[c] \in Terminal)
        /\ child[c].state = "running" => sock[c] = <<>>
        /\ (child[c].state # "none" /\ sock[c] # <<>>) => output[c] # <<>>

\* A static file was sent in two writes, the first with the status line
\* and the second with the contents alone.
C20_Witness ==
    \E c \in Conns :
        /\ Len(sock[c]) = 2
        /\ Status(c) = 200
        /\ sock[c][2].status = 0
        /\ pc[c] = "closed"

====
